---- MODULE Spec2Model ----
(***************************************************************************)
(* Client-side workflow of the Claude Skills Factory frontend: the skill   *)
(* creation page (SkillCreatorPage.tsx), the skill library page            *)
(* (SkillLibraryPage.tsx) and its publish modal (GitHubPublishModal.tsx),  *)
(* mounted one at a time by the router of App.                             *)
(*                                                                         *)
(* A JavaScript string is a sequence of one-character strings, so that     *)
(* trim, split, toLowerCase and the regular expressions are computed.      *)
(* null / undefined / '' of an optional value is the empty sequence <<>>,  *)
(* a present value v is <<v>>.                                             *)
(***************************************************************************)
EXTENDS Integers, Sequences, FiniteSets, TLC

\* ------------------------------------------------------------- bounds
\* Calls to the backend that a page may have in flight at once (the handlers
\* put no limit of their own on it).
MaxInFlight == 2

\* ------------------------------------------------------------ strings
UpperLetters == <<"A","B","C","D","E","F","G","H","I","J","K","L","M",
                  "N","O","P","Q","R","S","T","U","V","W","X","Y","Z">>
LowerLetters == <<"a","b","c","d","e","f","g","h","i","j","k","l","m",
                  "n","o","p","q","r","s","t","u","v","w","x","y","z">>
DigitChars == {"0","1","2","3","4","5","6","7","8","9"}
Whitespace == {" ", "\t", "\n"}

Range(f) == {f[i] : i \in DOMAIN f}

\* String.prototype.toLowerCase, one character.
ToLowerChar(c) ==
  IF \E i \in 1..26 : UpperLetters[i] = c
    THEN LowerLetters[CHOOSE i \in 1..26 : UpperLetters[i] = c]
    ELSE c

toLowerCase(s) == [i \in 1..Len(s) |-> ToLowerChar(s[i])]

\* The character class [a-z0-9-].
IsNameChar(c) == c \in Range(LowerLetters) \cup DigitChars \cup {"-"}

\* The character class [a-z0-9-] under the i flag.
IsTagChar(c) == IsNameChar(c) \/ c \in Range(UpperLetters)

RECURSIVE TrimStart(_)
TrimStart(s) ==
  IF s # <<>> /\ Head(s) \in Whitespace THEN TrimStart(Tail(s)) ELSE s

RECURSIVE TrimEnd(_)
TrimEnd(s) ==
  IF s # <<>> /\ s[Len(s)] \in Whitespace
    THEN TrimEnd(SubSeq(s, 1, Len(s) - 1))
    ELSE s

\* String.prototype.trim.
trim(s) == TrimEnd(TrimStart(s))

\* String.prototype.split(sep): "" splits to [""], "a,,b" to ["a","","b"].
RECURSIVE SplitFrom(_, _, _)
SplitFrom(s, sep, cur) ==
  IF s = <<>> THEN <<cur>>
  ELSE IF Head(s) = sep THEN <<cur>> \o SplitFrom(Tail(s), sep, <<>>)
  ELSE SplitFrom(Tail(s), sep, Append(cur, Head(s)))

split(s, sep) == SplitFrom(s, sep, <<>>)

RemoveAt(xs, i) == SubSeq(xs, 1, i - 1) \o SubSeq(xs, i + 1, Len(xs))

\* n copies of the character c.
Fill(c, n) == [i \in 1..n |-> c]

\* ---------------------------------------------------- SkillCreatorPage
MinNameLen == 3
MinContentLen == 100

\* .replace(/-+/g, '-')
RECURSIVE CollapseHyphens(_)
CollapseHyphens(s) ==
  IF Len(s) < 2 THEN s
  ELSE IF s[1] = "-" /\ s[2] = "-" THEN CollapseHyphens(Tail(s))
  ELSE <<s[1]>> \o CollapseHyphens(Tail(s))

\* .replace(/^-/, ''): the leading hyphen only.
StripLeadingHyphen(s) == IF s # <<>> /\ Head(s) = "-" THEN Tail(s) ELSE s

\* .replace(/^-|-$/g, '')
StripEdgeHyphens(s) ==
  LET a == IF s # <<>> /\ Head(s) = "-" THEN Tail(s) ELSE s
  IN  IF a # <<>> /\ a[Len(a)] = "-" THEN SubSeq(a, 1, Len(a) - 1) ELSE a

formatSkillName(name) ==
  LET lower == toLowerCase(name)
      hyphened == [i \in 1..Len(lower) |->
                     IF IsNameChar(lower[i]) THEN lower[i] ELSE "-"]
  IN  StripEdgeHyphens(CollapseHyphens(hyphened))

\* A validation message: its text, the length it reports (0 when it reports
\* none) and the entries it lists.  NoMsg is null (and '').
Msg(text, len, items) == [text |-> text, len |-> len, items |-> items]
NoMsg == Msg("", 0, <<>>)

\* validateSkillName comparing the length of the name as given.
validateSkillNameUntrimmedLength(name) ==
  IF trim(name) = <<>> THEN Msg("Skill name is required", 0, <<>>)
  ELSE IF Len(name) < MinNameLen
    THEN Msg("Skill name must be at least 3 characters", 0, <<>>)
  ELSE IF ~ (\A i \in 1..Len(trim(name)) : IsNameChar(trim(name)[i]))
    THEN Msg("Skill name must be lowercase with hyphens only", 0, <<>>)
  ELSE NoMsg

validateSkillName(name) ==
  IF trim(name) = <<>> THEN Msg("Skill name is required", 0, <<>>)
  ELSE IF Len(trim(name)) < MinNameLen
    THEN Msg("Skill name must be at least 3 characters", 0, <<>>)
  ELSE IF ~ (\A i \in 1..Len(trim(name)) : IsNameChar(trim(name)[i]))
    THEN Msg("Skill name must be lowercase with hyphens only", 0, <<>>)
  ELSE NoMsg

\* validateContent reporting the length of the content as given.
validateContentUntrimmedLength(c) ==
  IF trim(c) = <<>> THEN Msg("Content is required", 0, <<>>)
  ELSE IF Len(trim(c)) < MinContentLen
    THEN Msg("Content must be at least 100 characters (currently N)",
             Len(c), <<>>)
  ELSE NoMsg

validateContent(c) ==
  IF trim(c) = <<>> THEN Msg("Content is required", 0, <<>>)
  ELSE IF Len(trim(c)) < MinContentLen
    THEN Msg("Content must be at least 100 characters (currently N)",
             Len(trim(c)), <<>>)
  ELSE NoMsg

IsNonEmpty(t) == Len(t) > 0
IsInvalidTag(t) == ~ (t # <<>> /\ \A i \in 1..Len(t) : IsTagChar(t[i]))

\* tags.split(',').map(t => t.trim())
SplitTrimmed(tags) ==
  LET parts == split(tags, ",") IN [i \in 1..Len(parts) |-> trim(parts[i])]

\* validateTags without .filter(t => t.length > 0).
validateTagsKeepingEmpty(tags) ==
  IF trim(tags) = <<>> THEN NoMsg
  ELSE LET tagArray == SplitTrimmed(tags)
           invalidTags == SelectSeq(tagArray, IsInvalidTag)
       IN  IF Len(invalidTags) > 0
             THEN Msg("Invalid tags", 0, invalidTags)
             ELSE NoMsg

validateTags(tags) ==
  IF trim(tags) = <<>> THEN NoMsg
  ELSE LET tagArray == SelectSeq(SplitTrimmed(tags), IsNonEmpty)
           invalidTags == SelectSeq(tagArray, IsInvalidTag)
       IN  IF Len(invalidTags) > 0
             THEN Msg("Invalid tags", 0, invalidTags)
             ELSE NoMsg


\* The inputs typed into the form.
ContentInputs ==
  { <<" ">> \o Fill("x", MinContentLen - 1) \o <<"\n">>,
    <<" ">> \o Fill("x", MinContentLen) }
NameInputs ==
  { <<"a","b">>,
    <<"M","y"," ","S","k","i","l","l","!","!">> }
DescriptionInputs == { <<>>, <<"d">> }
TagInputs ==
  { <<"d","o","c","s",","," ","B","a","d"," ","T","a","g">>,
    <<"a",",",",","B","-","1">> }
ContentTypeInputs == {"process", "technical"}
ContentTypes == {"copywriting", "process", "technical"}
DefaultContentType == "process"

\* The collaborator's answers.  A failure is what axios rejects with:
\* err.response (status, data.message) when the server answered, err.message.
AnalysisIds == {"an-1", "an-2"}
Failures ==
  { [hasResponse |-> TRUE,  status |-> 500, dataMessage |-> <<"quota exceeded">>,
     message |-> <<"Request failed with status code 500">>],
    [hasResponse |-> FALSE, status |-> 0,   dataMessage |-> <<>>,
     message |-> <<"Network Error">>] }

API_BASE_URL == "http://localhost:3001/api"

VARIABLES
  route,             \* the page the router has mounted
  content, contentType, isAnalyzing, isGenerating, analysisResult,
  skillName, description, tags, error, success, validationErrors,
  analyzeReqs,       \* POST /analyze calls awaiting their response
  generateReqs,      \* POST /generate-skill calls awaiting their response
  skills, loading, search, filterType, publishModalOpen, selectedSkill,
  isPublishing, notification,
  githubToken, isPrivate,   \* state of GitHubPublishModal
  fetchReqs,         \* GET /skills calls awaiting their response
  deleteReqs,        \* DELETE /skills/{id} calls awaiting their response
  publishReqs,       \* POST /skills/{id}/publish calls awaiting their response
  db,                \* the storage collaborator's records
  call               \* a helper function called on its own: argument, result

\* The calls of the mounted page that have not settled yet.
InFlight ==
  Len(analyzeReqs) + Len(generateReqs) + Len(fetchReqs) + Len(deleteReqs)
    + Len(publishReqs)

creatorVars ==
  <<content, contentType, isAnalyzing, isGenerating, analysisResult,
    skillName, description, tags, error, success, validationErrors,
    analyzeReqs, generateReqs>>

\* The error banner: a message, and for a failed analysis the diagnostics.
\* NoBanner is ''.
Banner(msg, url, details, status, steps) ==
  [msg |-> msg, url |-> url, details |-> details, status |-> status,
   steps |-> steps]
NoBanner == Banner(NoMsg, "", "", 0, <<>>)
PlainBanner(msg) == Banner(msg, "", "", 0, <<>>)
RemediationSteps ==
  <<"Backend is running on Railway",
    "VITE_API_URL is set correctly in Vercel",
    "Backend has CLAUDE_API_KEY configured",
    "Backend has FRONTEND_URL set for CORS">>

NoValidationErrors == [content |-> NoMsg, skillName |-> NoMsg, tags |-> NoMsg]

\* useState initial values of SkillCreatorPage.
CreatorInit ==
  /\ content = <<>>
  /\ contentType = DefaultContentType
  /\ isAnalyzing = FALSE
  /\ isGenerating = FALSE
  /\ analysisResult = <<>>
  /\ skillName = <<>>
  /\ description = <<>>
  /\ tags = <<>>
  /\ error = NoBanner
  /\ success = <<>>
  /\ validationErrors = NoValidationErrors
  /\ analyzeReqs = <<>>
  /\ generateReqs = <<>>

\* The step the progress indicator shows.
currentStep ==
  IF analysisResult # <<>>
    THEN (IF isGenerating THEN "generating"
          ELSE IF success # <<>> THEN "complete" ELSE "preview")
    ELSE "input"

\* The Analyze button's disabled= without its isAnalyzing operand.
AnalyzeDisabledIgnoringBusy ==
  \/ trim(content) = <<>>
  \/ Len(trim(content)) < MinContentLen
  \/ validationErrors.content # NoMsg

\* The Analyze button's disabled= reading only the busy flag and the
\* recorded content error.
AnalyzeDisabledByRecordOnly ==
  \/ isAnalyzing
  \/ validationErrors.content # NoMsg

\* disabled= of the Analyze button.
AnalyzeDisabled ==
  \/ isAnalyzing
  \/ trim(content) = <<>>
  \/ Len(trim(content)) < MinContentLen
  \/ validationErrors.content # NoMsg

\* The Generate button: rendered with the analysis, and its disabled=.
GenerateRendered == analysisResult # <<>>
GenerateDisabled ==
  \/ isGenerating
  \/ trim(skillName) = <<>>
  \/ validationErrors.skillName # NoMsg
  \/ validationErrors.tags # NoMsg
GenerateEnabled == GenerateRendered /\ ~GenerateDisabled

setContentType(t) ==
  /\ contentType' = t
  /\ UNCHANGED <<content, isAnalyzing, isGenerating, analysisResult, skillName,
                 description, tags, error, success, validationErrors,
                 analyzeReqs, generateReqs>>

handleContentChange(value) ==
  /\ content' = value
  /\ validationErrors' = [validationErrors EXCEPT !.content = validateContent(value)]
  /\ UNCHANGED <<contentType, isAnalyzing, isGenerating, analysisResult,
                 skillName, description, tags, error, success,
                 analyzeReqs, generateReqs>>

\* handleSkillNameChange storing the value as typed.
handleSkillNameChangeAsTyped(value) ==
  /\ skillName' = value
  /\ validationErrors' =
       [validationErrors EXCEPT !.skillName = validateSkillName(value)]
  /\ UNCHANGED <<content, contentType, isAnalyzing, isGenerating,
                 analysisResult, description, tags, error, success,
                 analyzeReqs, generateReqs>>

handleSkillNameChange(value) ==
  LET formatted == formatSkillName(value) IN
  /\ skillName' = formatted
  /\ validationErrors' =
       [validationErrors EXCEPT !.skillName = validateSkillName(formatted)]
  /\ UNCHANGED <<content, contentType, isAnalyzing, isGenerating,
                 analysisResult, description, tags, error, success,
                 analyzeReqs, generateReqs>>

setDescription(value) ==
  /\ description' = value
  /\ UNCHANGED <<content, contentType, isAnalyzing, isGenerating,
                 analysisResult, skillName, tags, error, success,
                 validationErrors, analyzeReqs, generateReqs>>

handleTagsChange(value) ==
  /\ tags' = value
  /\ validationErrors' = [validationErrors EXCEPT !.tags = validateTags(value)]
  /\ UNCHANGED <<content, contentType, isAnalyzing, isGenerating,
                 analysisResult, skillName, description, error, success,
                 analyzeReqs, generateReqs>>

\* handleAnalyze without its validateContent guard.
handleAnalyzeUnguarded ==
  /\ InFlight < MaxInFlight
  /\ isAnalyzing' = TRUE
  /\ error' = NoBanner
  /\ validationErrors' = NoValidationErrors
  /\ analysisResult' = <<>>
  /\ analyzeReqs' = Append(analyzeReqs,
                      [content |-> content, contentType |-> contentType,
                       step |-> currentStep])
  /\ UNCHANGED <<content, contentType, isGenerating, skillName,
                 description, tags, success, generateReqs>>

\* handleAnalyze up to its await.  The call is kept with what the render
\* that handled the click held: the content and type sent, the step shown.
handleAnalyze ==
  LET contentError == validateContent(content) IN
  IF contentError # NoMsg
    THEN /\ error' = PlainBanner(contentError)
         /\ validationErrors' = [validationErrors EXCEPT !.content = contentError]
         /\ UNCHANGED <<content, contentType, isAnalyzing, isGenerating,
                        analysisResult, skillName, description, tags, success,
                        analyzeReqs, generateReqs>>
    ELSE /\ InFlight < MaxInFlight
         /\ isAnalyzing' = TRUE
         /\ error' = NoBanner
         /\ validationErrors' = NoValidationErrors
         /\ analysisResult' = <<>>
         /\ analyzeReqs' = Append(analyzeReqs,
                             [content |-> content, contentType |-> contentType,
                              step |-> currentStep])
         /\ UNCHANGED <<content, contentType, isGenerating, skillName,
                        description, tags, success, generateReqs>>

\* handleAnalyze after its await: the call resolved.
AnalyzeSucceeded(i, id) ==
  /\ i \in 1..Len(analyzeReqs)
  /\ analysisResult' = << [analysisId |-> id,
                           contentType |-> analyzeReqs[i].contentType] >>
  /\ error' = NoBanner
  /\ isAnalyzing' = FALSE
  /\ analyzeReqs' = RemoveAt(analyzeReqs, i)
  /\ UNCHANGED <<content, contentType, isGenerating, skillName, description,
                 tags, success, validationErrors, generateReqs>>

\* err.response?.data?.message || err.message || 'Analysis failed'
AnalysisErrorMessage(f) ==
  IF f.hasResponse /\ f.dataMessage # <<>> THEN Msg(f.dataMessage[1], 0, <<>>)
  ELSE IF f.message # <<>> THEN Msg(f.message[1], 0, <<>>)
  ELSE Msg("Analysis failed", 0, <<>>)

\* handleAnalyze rejected, with the message alone as the banner.
AnalyzeFailedPlainMessage(i, f) ==
  /\ i \in 1..Len(analyzeReqs)
  /\ error' = PlainBanner(AnalysisErrorMessage(f))
  /\ isAnalyzing' = FALSE
  /\ analyzeReqs' = RemoveAt(analyzeReqs, i)
  /\ UNCHANGED <<content, contentType, isGenerating, analysisResult, skillName,
                 description, tags, success, validationErrors, generateReqs>>

\* handleAnalyze after its await: the call rejected.
AnalyzeFailed(i, f) ==
  /\ i \in 1..Len(analyzeReqs)
  /\ error' = Banner(AnalysisErrorMessage(f), API_BASE_URL,
                     IF f.hasResponse /\ f.status # 0 THEN "HTTP" ELSE "Connection error",
                     IF f.hasResponse THEN f.status ELSE 0,
                     RemediationSteps)
  /\ isAnalyzing' = FALSE
  /\ analyzeReqs' = RemoveAt(analyzeReqs, i)
  /\ UNCHANGED <<content, contentType, isGenerating, analysisResult, skillName,
                 description, tags, success, validationErrors, generateReqs>>

\* The body of the POST /generate-skill request.
GenerateRequest ==
  [analysisId |-> analysisResult[1].analysisId,
   skillName |-> trim(skillName),
   skillType |-> contentType,
   description |-> IF description # <<>> THEN <<description>> ELSE <<>>,
   tags |-> IF tags # <<>> THEN <<SplitTrimmed(tags)>> ELSE <<>>]

\* handleGenerateSkill without its validateSkillName guard.
handleGenerateSkillNameUnchecked ==
  LET tagsError == validateTags(tags) IN
  IF analysisResult = <<>>
    THEN UNCHANGED creatorVars
  ELSE IF tagsError # NoMsg
    THEN /\ error' = PlainBanner(tagsError)
         /\ validationErrors' = [validationErrors EXCEPT !.tags = tagsError]
         /\ UNCHANGED <<content, contentType, isAnalyzing, isGenerating,
                        analysisResult, skillName, description, tags, success,
                        analyzeReqs, generateReqs>>
  ELSE /\ InFlight < MaxInFlight
       /\ isGenerating' = TRUE
       /\ error' = NoBanner
       /\ validationErrors' = NoValidationErrors
       /\ generateReqs' = Append(generateReqs, GenerateRequest)
       /\ UNCHANGED <<content, contentType, isAnalyzing, analysisResult,
                      skillName, description, tags, success, analyzeReqs>>

\* handleGenerateSkill up to its await.
handleGenerateSkill ==
  LET skillNameError == validateSkillName(skillName)
      tagsError == validateTags(tags)
  IN
  IF analysisResult = <<>>
    THEN UNCHANGED creatorVars
  ELSE IF skillNameError # NoMsg
    THEN /\ error' = PlainBanner(skillNameError)
         /\ validationErrors' = [validationErrors EXCEPT !.skillName = skillNameError]
         /\ UNCHANGED <<content, contentType, isAnalyzing, isGenerating,
                        analysisResult, skillName, description, tags, success,
                        analyzeReqs, generateReqs>>
  ELSE IF tagsError # NoMsg
    THEN /\ error' = PlainBanner(tagsError)
         /\ validationErrors' = [validationErrors EXCEPT !.tags = tagsError]
         /\ UNCHANGED <<content, contentType, isAnalyzing, isGenerating,
                        analysisResult, skillName, description, tags, success,
                        analyzeReqs, generateReqs>>
  ELSE /\ InFlight < MaxInFlight
       /\ isGenerating' = TRUE
       /\ error' = NoBanner
       /\ validationErrors' = NoValidationErrors
       /\ generateReqs' = Append(generateReqs, GenerateRequest)
       /\ UNCHANGED <<content, contentType, isAnalyzing, analysisResult,
                      skillName, description, tags, success, analyzeReqs>>

\* handleGenerateSkill after its await: the call resolved; the response names
\* the skill that was created.
GenerateSucceeded(i) ==
  /\ i \in 1..Len(generateReqs)
  /\ success' = <<generateReqs[i].skillName>>
  /\ content' = <<>>
  /\ contentType' = DefaultContentType
  /\ analysisResult' = <<>>
  /\ skillName' = <<>>
  /\ description' = <<>>
  /\ tags' = <<>>
  /\ validationErrors' = NoValidationErrors
  /\ isGenerating' = FALSE
  /\ generateReqs' = RemoveAt(generateReqs, i)
  /\ UNCHANGED <<isAnalyzing, error, analyzeReqs>>

\* GenerateFailed without the finally block.
GenerateFailedNoFinally(i, f) ==
  /\ i \in 1..Len(generateReqs)
  /\ error' = PlainBanner(IF f.hasResponse /\ f.dataMessage # <<>>
                            THEN Msg(f.dataMessage[1], 0, <<>>)
                            ELSE Msg("Skill generation failed", 0, <<>>))
  /\ generateReqs' = RemoveAt(generateReqs, i)
  /\ UNCHANGED <<content, contentType, isAnalyzing, isGenerating,
                 analysisResult, skillName, description, tags, success,
                 validationErrors, analyzeReqs>>

\* handleGenerateSkill after its await: the call rejected.
GenerateFailed(i, f) ==
  /\ i \in 1..Len(generateReqs)
  /\ error' = PlainBanner(IF f.hasResponse /\ f.dataMessage # <<>>
                            THEN Msg(f.dataMessage[1], 0, <<>>)
                            ELSE Msg("Skill generation failed", 0, <<>>))
  /\ isGenerating' = FALSE
  /\ generateReqs' = RemoveAt(generateReqs, i)
  /\ UNCHANGED <<content, contentType, isAnalyzing, analysisResult, skillName,
                 description, tags, success, validationErrors, analyzeReqs>>

\* The user's clicks: a disabled or unrendered control delivers no event.
ClickAnalyze == ~AnalyzeDisabled /\ handleAnalyze
ClickGenerate == GenerateEnabled /\ handleGenerateSkill


\* ----------------------------------------------------- SkillLibraryPage
SkillIds == {1, 2}
SkillNameOf == [id \in SkillIds |-> IF id = 1 THEN "alpha" ELSE "beta"]
SkillTypeOf == [id \in SkillIds |-> IF id = 1 THEN "process" ELSE "technical"]
SearchInputs == {"", "beta"}
FilterInputs == {"all", "process"}
TokenInputs == { <<>>, <<" ">>, <<" ","g","h","p","_","1","\n">> }
DbStates == [SkillIds -> {"absent", "stored", "published"}]
NoDb == [id \in SkillIds |-> "absent"]

libraryVars ==
  <<skills, loading, search, filterType, publishModalOpen, selectedSkill,
    isPublishing, notification, githubToken, isPrivate, fetchReqs, deleteReqs, publishReqs, db>>

vars == <<route, creatorVars, libraryVars, call>>

\* useState initial values of SkillLibraryPage and of GitHubPublishModal.
LibraryState ==
  /\ skills = <<>>
  /\ loading = TRUE
  /\ search = ""
  /\ filterType = "all"
  /\ publishModalOpen = FALSE
  /\ selectedSkill = <<>>
  /\ isPublishing = FALSE
  /\ notification = <<>>
  /\ githubToken = <<>>
  /\ isPrivate = TRUE
  /\ deleteReqs = <<>>
  /\ publishReqs = <<>>

\* The params with the search term and the filter sent as they are held.
SkillsParamsAsHeld(s, t) == [search |-> <<s>>, type |-> <<t>>]

\* The params of getSkills as loadSkills builds them from a render's state.
SkillsParams(s, t) ==
  [search |-> IF s # "" THEN <<s>> ELSE <<>>,
   type |-> IF t # "all" THEN <<t>> ELSE <<>>]

\* A GET /skills call: its params, the answer once the collaborator has
\* given one, and whether handlePublish awaits it.
FetchCall(s, t, awaited) ==
  [params |-> SkillsParams(s, t), answer |-> "none", items |-> <<>>,
   awaitedByPublish |-> awaited]

\* The records GET /skills answers with, by id.
RECURSIVE ListFrom(_, _, _)
ListFrom(d, params, id) ==
  IF id \notin SkillIds THEN <<>>
  ELSE (IF /\ d[id] # "absent"
           /\ (params.search = <<>> \/ params.search[1] = SkillNameOf[id])
           /\ (params.type = <<>> \/ params.type[1] = SkillTypeOf[id])
          THEN << [id |-> id, github |-> d[id] = "published"] >>
          ELSE <<>>)
       \o ListFrom(d, params, id + 1)

ServerList(d, params) == ListFrom(d, params, 1)

\* The library page is mounted: its initial state, and the effect's loadSkills.
LibraryMounted ==
  /\ LibraryState
  /\ fetchReqs = << FetchCall("", "all", FALSE) >>
  /\ db \in DbStates

\* The library page is not mounted.
LibraryUnmounted ==
  /\ LibraryState
  /\ fetchReqs = <<>>
  /\ db = NoDb

\* setSearch / setFilterType and the effect on [search, filterType].
setSearch(value) ==
  /\ value # search
  /\ InFlight < MaxInFlight
  /\ search' = value
  /\ loading' = TRUE
  /\ fetchReqs' = Append(fetchReqs, FetchCall(value, filterType, FALSE))
  /\ UNCHANGED <<skills, filterType, publishModalOpen, selectedSkill,
                 isPublishing, notification, githubToken, isPrivate, deleteReqs, publishReqs, db>>

setFilterType(value) ==
  /\ value # filterType
  /\ InFlight < MaxInFlight
  /\ filterType' = value
  /\ loading' = TRUE
  /\ fetchReqs' = Append(fetchReqs, FetchCall(search, value, FALSE))
  /\ UNCHANGED <<skills, search, publishModalOpen, selectedSkill,
                 isPublishing, notification, githubToken, isPrivate, deleteReqs, publishReqs, db>>

\* The storage collaborator answers a GET /skills call from its records.
FetchAnswered(i, ok) ==
  /\ i \in 1..Len(fetchReqs)
  /\ fetchReqs[i].answer = "none"
  /\ fetchReqs' =
       [fetchReqs EXCEPT ![i] =
          [fetchReqs[i] EXCEPT
             !.answer = IF ok THEN "ok" ELSE "failed",
             !.items = IF ok THEN ServerList(db, fetchReqs[i].params) ELSE <<>>]]
  /\ UNCHANGED <<skills, loading, search, filterType, publishModalOpen,
                 selectedSkill, isPublishing, notification, githubToken,
                 isPrivate, deleteReqs, publishReqs, db>>

\* loadSkills after its await; when handlePublish awaited it, handlePublish's
\* finally and then handleSubmit's last statement follow.
loadSkillsResolved(i) ==
  /\ i \in 1..Len(fetchReqs)
  /\ fetchReqs[i].answer # "none"
  /\ IF fetchReqs[i].answer = "ok"
       THEN skills' = fetchReqs[i].items
       ELSE UNCHANGED skills
  /\ loading' = FALSE
  /\ IF fetchReqs[i].awaitedByPublish
       THEN /\ isPublishing' = FALSE
            /\ githubToken' = <<>>
       ELSE UNCHANGED <<isPublishing, githubToken>>
  /\ fetchReqs' = RemoveAt(fetchReqs, i)
  /\ UNCHANGED <<search, filterType, publishModalOpen, selectedSkill,
                 notification, isPrivate, deleteReqs, publishReqs, db>>

\* The skills grid is rendered in place of "Loading skills...".
Listed(i) == ~loading /\ i \in 1..Len(skills)

\* handleDelete up to its await; confirmed is the answer to confirm().
handleDelete(id, confirmed) ==
  IF ~confirmed
    THEN UNCHANGED libraryVars
    ELSE /\ InFlight < MaxInFlight
         /\ deleteReqs' = Append(deleteReqs,
                            [id |-> id, search |-> search, filterType |-> filterType])
         /\ UNCHANGED <<skills, loading, search, filterType, publishModalOpen,
                        selectedSkill, isPublishing, notification, githubToken,
                        isPrivate, fetchReqs, publishReqs, db>>

\* handleDelete after its await, without the call of loadSkills.
DeleteSucceededNoRefetch(i) ==
  /\ i \in 1..Len(deleteReqs)
  /\ db[deleteReqs[i].id] # "absent"
  /\ db' = [db EXCEPT ![deleteReqs[i].id] = "absent"]
  /\ deleteReqs' = RemoveAt(deleteReqs, i)
  /\ UNCHANGED <<skills, loading, search, filterType, publishModalOpen,
                 selectedSkill, isPublishing, notification, githubToken,
                 isPrivate, fetchReqs, publishReqs>>

\* handleDelete after its await: the record is gone, and loadSkills of the
\* render that handled the click is called.
DeleteSucceeded(i) ==
  /\ i \in 1..Len(deleteReqs)
  /\ db[deleteReqs[i].id] # "absent"
  /\ db' = [db EXCEPT ![deleteReqs[i].id] = "absent"]
  /\ loading' = TRUE
  /\ fetchReqs' = Append(fetchReqs,
                    FetchCall(deleteReqs[i].search, deleteReqs[i].filterType, FALSE))
  /\ deleteReqs' = RemoveAt(deleteReqs, i)
  /\ UNCHANGED <<skills, search, filterType, publishModalOpen, selectedSkill,
                 isPublishing, notification, githubToken, isPrivate, publishReqs>>

DeleteFailed(i) ==
  /\ i \in 1..Len(deleteReqs)
  /\ deleteReqs' = RemoveAt(deleteReqs, i)
  /\ UNCHANGED <<skills, loading, search, filterType, publishModalOpen,
                 selectedSkill, isPublishing, notification, githubToken,
                 isPrivate, fetchReqs, publishReqs, db>>

handleOpenPublishModal(skill) ==
  /\ selectedSkill' = <<skill>>
  /\ publishModalOpen' = TRUE
  /\ UNCHANGED <<skills, loading, search, filterType, isPublishing,
                 notification, githubToken, isPrivate, fetchReqs,
                 deleteReqs, publishReqs, db>>

Notice(type, message) == << [type |-> type, message |-> message] >>

\* handlePublish up to its await.
handlePublish(token, private) ==
  IF selectedSkill = <<>>
    THEN UNCHANGED libraryVars
    ELSE /\ InFlight < MaxInFlight
         /\ isPublishing' = TRUE
         /\ publishReqs' = Append(publishReqs,
                             [id |-> selectedSkill[1].id, githubToken |-> token,
                              isPrivate |-> private,
                              search |-> search, filterType |-> filterType])
         /\ UNCHANGED <<skills, loading, search, filterType, publishModalOpen,
                        selectedSkill, notification, githubToken, isPrivate, fetchReqs, deleteReqs, db>>

\* handleSubmit without its empty-token guard.
handleSubmitUnguarded == handlePublish(trim(githubToken), isPrivate)

\* handleSubmit passing the token as typed.
handleSubmitUntrimmed ==
  IF trim(githubToken) = <<>>
    THEN UNCHANGED libraryVars
    ELSE handlePublish(githubToken, isPrivate)

\* handleSubmit of the modal up to its await.
handleSubmit ==
  IF trim(githubToken) = <<>>
    THEN UNCHANGED libraryVars
    ELSE handlePublish(trim(githubToken), isPrivate)

\* handlePublish after its await: published; loadSkills of the render that
\* handled the submit is called and awaited.
PublishSucceeded(i) ==
  /\ i \in 1..Len(publishReqs)
  /\ db[publishReqs[i].id] # "absent"
  /\ db' = [db EXCEPT ![publishReqs[i].id] = "published"]
  /\ notification' = Notice("success", "Successfully published to GitHub!")
  /\ publishModalOpen' = FALSE
  /\ loading' = TRUE
  /\ fetchReqs' = Append(fetchReqs,
                    FetchCall(publishReqs[i].search, publishReqs[i].filterType, TRUE))
  /\ publishReqs' = RemoveAt(publishReqs, i)
  /\ UNCHANGED <<skills, search, filterType, selectedSkill, isPublishing,
                 githubToken, isPrivate, deleteReqs>>

\* handlePublish rejected, with the fallback message whatever the response.
PublishFailedGenericMessage(i, f) ==
  /\ i \in 1..Len(publishReqs)
  /\ notification' = Notice("error", "Failed to publish skill to GitHub")
  /\ isPublishing' = FALSE
  /\ githubToken' = <<>>
  /\ publishReqs' = RemoveAt(publishReqs, i)
  /\ UNCHANGED <<skills, loading, search, filterType, publishModalOpen,
                 selectedSkill, isPrivate, fetchReqs, deleteReqs, db>>

\* handlePublish after its await: rejected; its finally and then handleSubmit's
\* last statement follow.
PublishFailed(i, f) ==
  /\ i \in 1..Len(publishReqs)
  /\ notification' = Notice("error",
                       IF f.hasResponse /\ f.dataMessage # <<>>
                         THEN f.dataMessage[1]
                         ELSE "Failed to publish skill to GitHub")
  /\ isPublishing' = FALSE
  /\ githubToken' = <<>>
  /\ publishReqs' = RemoveAt(publishReqs, i)
  /\ UNCHANGED <<skills, loading, search, filterType, publishModalOpen,
                 selectedSkill, isPrivate, fetchReqs, deleteReqs, db>>

\* handleClose of the modal, then the page's onClose.
handleClose ==
  /\ githubToken' = <<>>
  /\ publishModalOpen' = FALSE
  /\ selectedSkill' = <<>>
  /\ isPrivate' = TRUE
  /\ UNCHANGED <<skills, loading, search, filterType, isPublishing,
                 notification, fetchReqs, deleteReqs, publishReqs, db>>

\* The modal's form is rendered.
ModalShown == selectedSkill # <<>> /\ publishModalOpen

setGithubToken(value) ==
  /\ githubToken' = value
  /\ UNCHANGED <<skills, loading, search, filterType, publishModalOpen,
                 selectedSkill, isPublishing, notification, isPrivate, fetchReqs, deleteReqs, publishReqs, db>>

setIsPrivate(value) ==
  /\ isPrivate' = value
  /\ UNCHANGED <<skills, loading, search, filterType, publishModalOpen,
                 selectedSkill, isPublishing, notification, githubToken, fetchReqs, deleteReqs, publishReqs, db>>

\* disabled= of the modal's Publish button.
PublishDisabled == isPublishing \/ trim(githubToken) = <<>>

\* setNotification(null): the 5 s timer of showNotification, or the X button.
clearNotification ==
  /\ notification # <<>>
  /\ notification' = <<>>
  /\ UNCHANGED <<skills, loading, search, filterType, publishModalOpen,
                 selectedSkill, isPublishing, githubToken, isPrivate, fetchReqs, deleteReqs, publishReqs, db>>


\* ------------------------------------------------------------------ App
\* A call of one of SkillCreatorPage's helper functions: the function, its
\* argument and, once it has returned, the string or the message returned.
HelperCall(fn, arg) ==
  [fn |-> fn, arg |-> arg, returned |-> FALSE, str |-> <<>>, msg |-> NoMsg]

NoCall == HelperCall("none", <<>>)

\* The router mounts one page; a page that is left loses its state, and the
\* responses of the calls it left pending find no component to update.
Init ==
  /\ route \in {"creator", "library"}
  /\ CreatorInit
  /\ IF route = "library" THEN LibraryMounted ELSE LibraryUnmounted
  /\ call = NoCall

\* Unmounting the creator page, and what a later mount starts from.
CreatorReset ==
  /\ content' = <<>>
  /\ contentType' = DefaultContentType
  /\ isAnalyzing' = FALSE
  /\ isGenerating' = FALSE
  /\ analysisResult' = <<>>
  /\ skillName' = <<>>
  /\ description' = <<>>
  /\ tags' = <<>>
  /\ error' = NoBanner
  /\ success' = <<>>
  /\ validationErrors' = NoValidationErrors
  /\ analyzeReqs' = <<>>
  /\ generateReqs' = <<>>

LibraryReset ==
  /\ skills' = <<>>
  /\ loading' = TRUE
  /\ search' = ""
  /\ filterType' = "all"
  /\ publishModalOpen' = FALSE
  /\ selectedSkill' = <<>>
  /\ isPublishing' = FALSE
  /\ notification' = <<>>
  /\ githubToken' = <<>>
  /\ isPrivate' = TRUE
  /\ deleteReqs' = <<>>
  /\ publishReqs' = <<>>

\* <Link to="/library">: the library page mounts and its effect calls
\* loadSkills; the collaborator holds whatever records it holds by then.
GoToLibrary ==
  /\ route = "creator"
  /\ route' = "library"
  /\ CreatorReset
  /\ LibraryReset
  /\ fetchReqs' = << FetchCall("", "all", FALSE) >>
  /\ db' \in DbStates
  /\ UNCHANGED call

\* <Link to="/">
GoToCreator ==
  /\ route = "library"
  /\ route' = "creator"
  /\ CreatorReset
  /\ LibraryReset
  /\ fetchReqs' = <<>>
  /\ db' = NoDb
  /\ UNCHANGED call

\* The user's events on the creator page.
ChangeContentType ==
  /\ route = "creator"
  /\ \E t \in ContentTypeInputs : t # contentType /\ setContentType(t)
  /\ UNCHANGED <<call, route, libraryVars>>

TypeContent ==
  /\ route = "creator"
  /\ \E v \in ContentInputs : v # content /\ handleContentChange(v)
  /\ UNCHANGED <<call, route, libraryVars>>

TypeSkillName ==
  /\ route = "creator"
  /\ GenerateRendered
  /\ \E v \in NameInputs : v # skillName /\ handleSkillNameChange(v)
  /\ UNCHANGED <<call, route, libraryVars>>

TypeDescription ==
  /\ route = "creator"
  /\ GenerateRendered
  /\ \E v \in DescriptionInputs : v # description /\ setDescription(v)
  /\ UNCHANGED <<call, route, libraryVars>>

TypeTags ==
  /\ route = "creator"
  /\ GenerateRendered
  /\ \E v \in TagInputs : v # tags /\ handleTagsChange(v)
  /\ UNCHANGED <<call, route, libraryVars>>

Analyze ==
  /\ route = "creator"
  /\ ClickAnalyze
  /\ UNCHANGED <<call, route, libraryVars>>

Generate ==
  /\ route = "creator"
  /\ ClickGenerate
  /\ UNCHANGED <<call, route, libraryVars>>

\* The analysis and generation collaborator's responses.
AnalyzeSucceeds ==
  /\ route = "creator"
  /\ \E i \in 1..Len(analyzeReqs), id \in AnalysisIds : AnalyzeSucceeded(i, id)
  /\ UNCHANGED <<call, route, libraryVars>>

AnalyzeFails ==
  /\ route = "creator"
  /\ \E i \in 1..Len(analyzeReqs), f \in Failures : AnalyzeFailed(i, f)
  /\ UNCHANGED <<call, route, libraryVars>>

GenerateSucceeds ==
  /\ route = "creator"
  /\ \E i \in 1..Len(generateReqs) : GenerateSucceeded(i)
  /\ UNCHANGED <<call, route, libraryVars>>

GenerateFails ==
  /\ route = "creator"
  /\ \E i \in 1..Len(generateReqs), f \in Failures : GenerateFailed(i, f)
  /\ UNCHANGED <<call, route, libraryVars>>

\* The user's events on the library page.
ChangeSearch ==
  /\ route = "library"
  /\ \E v \in SearchInputs : setSearch(v)
  /\ UNCHANGED <<call, route, creatorVars>>

ChangeFilter ==
  /\ route = "library"
  /\ \E v \in FilterInputs : setFilterType(v)
  /\ UNCHANGED <<call, route, creatorVars>>

Delete ==
  /\ route = "library"
  /\ \E i \in 1..Len(skills), confirmed \in BOOLEAN :
       Listed(i) /\ handleDelete(skills[i].id, confirmed)
  /\ UNCHANGED <<call, route, creatorVars>>

OpenPublishModal ==
  /\ route = "library"
  /\ \E i \in 1..Len(skills) :
       Listed(i) /\ ~skills[i].github /\ handleOpenPublishModal(skills[i])
  /\ UNCHANGED <<call, route, creatorVars>>

TypeToken ==
  /\ route = "library"
  /\ ModalShown /\ ~isPublishing
  /\ \E v \in TokenInputs : v # githubToken /\ setGithubToken(v)
  /\ UNCHANGED <<call, route, creatorVars>>

TogglePrivate ==
  /\ route = "library"
  /\ ModalShown /\ ~isPublishing
  /\ setIsPrivate(~isPrivate)
  /\ UNCHANGED <<call, route, creatorVars>>

Submit ==
  /\ route = "library"
  /\ ModalShown /\ ~PublishDisabled
  /\ handleSubmit
  /\ UNCHANGED <<call, route, creatorVars>>

\* The X and Cancel buttons without disabled={isPublishing}.
CloseWhilePublishing ==
  /\ route = "library"
  /\ ModalShown
  /\ handleClose
  /\ UNCHANGED <<call, route, creatorVars>>

Close ==
  /\ route = "library"
  /\ ModalShown /\ ~isPublishing
  /\ handleClose
  /\ UNCHANGED <<call, route, creatorVars>>

DismissNotification ==
  /\ route = "library"
  /\ clearNotification
  /\ UNCHANGED <<call, route, creatorVars>>

\* The storage and publishing collaborators' responses.
FetchAnswers ==
  /\ route = "library"
  /\ \E i \in 1..Len(fetchReqs), ok \in BOOLEAN : FetchAnswered(i, ok)
  /\ UNCHANGED <<call, route, creatorVars>>

FetchResolves ==
  /\ route = "library"
  /\ \E i \in 1..Len(fetchReqs) : loadSkillsResolved(i)
  /\ UNCHANGED <<call, route, creatorVars>>

DeleteSucceeds ==
  /\ route = "library"
  /\ \E i \in 1..Len(deleteReqs) : DeleteSucceeded(i)
  /\ UNCHANGED <<call, route, creatorVars>>

DeleteFails ==
  /\ route = "library"
  /\ \E i \in 1..Len(deleteReqs) : DeleteFailed(i)
  /\ UNCHANGED <<call, route, creatorVars>>

PublishSucceeds ==
  /\ route = "library"
  /\ \E i \in 1..Len(publishReqs) : PublishSucceeded(i)
  /\ UNCHANGED <<call, route, creatorVars>>

PublishFails ==
  /\ route = "library"
  /\ \E i \in 1..Len(publishReqs), f \in Failures : PublishFailed(i, f)
  /\ UNCHANGED <<call, route, creatorVars>>

\* A handler called although its control is disabled or not rendered (from a
\* test, the console, or an event delivered just before the re-render).
ForceAnalyze ==
  /\ route = "creator"
  /\ handleAnalyze
  /\ UNCHANGED <<call, route, libraryVars>>

ForceGenerate ==
  /\ route = "creator"
  /\ handleGenerateSkill
  /\ UNCHANGED <<call, route, libraryVars>>

ForceSubmit ==
  /\ route = "library"
  /\ ModalShown
  /\ handleSubmit
  /\ UNCHANGED <<call, route, creatorVars>>

\* ------------------------------------------------------- specifications
Navigation == GoToLibrary \/ GoToCreator

CreatorEvents ==
  \/ ChangeContentType
  \/ TypeContent
  \/ TypeSkillName
  \/ TypeDescription
  \/ TypeTags
  \/ Analyze
  \/ Generate
  \/ AnalyzeSucceeds
  \/ AnalyzeFails
  \/ GenerateSucceeds
  \/ GenerateFails

\* A visit of the library in which the user searches and publishes.
PublishEvents ==
  \/ ChangeSearch
  \/ OpenPublishModal
  \/ TypeToken
  \/ TogglePrivate
  \/ Submit
  \/ Close
  \/ DismissNotification
  \/ FetchAnswers
  \/ FetchResolves
  \/ PublishSucceeds
  \/ PublishFails

\* A visit of the library in which the user searches, filters and deletes.
BrowseEvents ==
  \/ ChangeSearch
  \/ ChangeFilter
  \/ Delete
  \/ FetchAnswers
  \/ FetchResolves
  \/ DeleteSucceeds
  \/ DeleteFails

ForcedCalls == ForceAnalyze \/ ForceGenerate \/ ForceSubmit

\* The application as the user drives it through its controls.
Next == Navigation \/ CreatorEvents \/ PublishEvents

Spec == Init /\ [][Next]_vars

\* The library page alone, browsed.
InitBrowse ==
  route = "library" /\ CreatorInit /\ LibraryMounted /\ call = NoCall

NextBrowse == BrowseEvents

SpecBrowse == InitBrowse /\ [][NextBrowse]_vars

\* The events that start, settle and follow the four kinds of call.
CoreEvents ==
  \/ TypeContent
  \/ TypeSkillName
  \/ TypeTags
  \/ Analyze
  \/ Generate
  \/ AnalyzeSucceeds
  \/ AnalyzeFails
  \/ GenerateSucceeds
  \/ GenerateFails
  \/ OpenPublishModal
  \/ TypeToken
  \/ Submit
  \/ Close
  \/ FetchAnswers
  \/ FetchResolves
  \/ PublishSucceeds
  \/ PublishFails

\* The application with its handlers also called past their controls.
NextForced == Navigation \/ CoreEvents \/ ForcedCalls

SpecForced == Init /\ [][NextForced]_vars

\* Every call is eventually answered: the oldest call of each kind that is
\* still pending settles, so no call waits for ever behind later ones.
OldestAnalyzeSettles ==
  /\ route = "creator"
  /\ \/ \E id \in AnalysisIds : AnalyzeSucceeded(1, id)
     \/ \E f \in Failures : AnalyzeFailed(1, f)
  /\ UNCHANGED <<call, route, libraryVars>>

OldestGenerateSettles ==
  /\ route = "creator"
  /\ \/ GenerateSucceeded(1)
     \/ \E f \in Failures : GenerateFailed(1, f)
  /\ UNCHANGED <<call, route, libraryVars>>

OldestPublishSettles ==
  /\ route = "library"
  /\ \/ PublishSucceeded(1)
     \/ \E f \in Failures : PublishFailed(1, f)
  /\ UNCHANGED <<call, route, creatorVars>>

OldestFetchAnswers ==
  /\ route = "library"
  /\ \E ok \in BOOLEAN : FetchAnswered(1, ok)
  /\ UNCHANGED <<call, route, creatorVars>>

OldestFetchResolves ==
  /\ route = "library"
  /\ loadSkillsResolved(1)
  /\ UNCHANGED <<call, route, creatorVars>>

Fairness ==
  /\ WF_vars(OldestAnalyzeSettles)
  /\ WF_vars(OldestGenerateSettles)
  /\ WF_vars(OldestPublishSettles)
  /\ WF_vars(OldestFetchAnswers)
  /\ WF_vars(OldestFetchResolves)

\* One visit of a page whose calls are all answered; the library holds both
\* skills, unpublished, when the visit starts.
InitFair == Init /\ (route = "library" => db = [id \in SkillIds |-> "stored"])

NextFair == CoreEvents \/ ChangeSearch

FairSpec == InitFair /\ [][NextFair]_vars /\ Fairness

\* ------------------------------------------------------- helper functions

\* The helper functions take any string. The arguments tried are every
\* string of at most MaxArgLen characters over an alphabet with a character
\* of each kind the functions tell apart, and the strings around the
\* content minimum.
MaxArgLen == 4

Alphabet == {"a", "B", "1", "-", ",", " ", "!"}

Strings(n) == UNION { [1..k -> Alphabet] : k \in 0..n }

ExampleArgs ==
  { <<"M","y"," ","S","k","i","l","l","!","!">>,
    <<"s","h","o","r","t">>,
    <<"d","o","c","s",","," ","a","u","t","o","m","a","t","i","o","n",",",
      " ","B","a","d"," ","T","a","g">> }

Paddings == {<<>>, <<" ">>, <<"\n", "\t">>}

LongArgs ==
  { before \o Fill("x", n) \o inside \o Fill("y", m) \o after :
      before \in Paddings, after \in Paddings, inside \in {<<>>, <<" ">>},
      n \in {MinContentLen - 2, MinContentLen - 1, MinContentLen},
      m \in {0, 1} }

HelperNames ==
  {"formatSkillName", "validateSkillName", "validateContent", "validateTags",
   "formatThenValidate"}

ArgsOf(fn) ==
  Strings(MaxArgLen) \cup ExampleArgs
    \cup (IF fn = "validateContent" THEN LongArgs ELSE {})

InitHelpers ==
  /\ route = "creator"
  /\ CreatorInit
  /\ LibraryUnmounted
  /\ \E fn \in HelperNames : \E arg \in ArgsOf(fn) : call = HelperCall(fn, arg)

\* Each helper called on its argument.
ApplyFormatSkillName ==
  /\ call.fn = "formatSkillName"
  /\ ~call.returned
  /\ call' = [call EXCEPT !.returned = TRUE,
                          !.str = formatSkillName(call.arg)]
  /\ UNCHANGED <<route, creatorVars, libraryVars>>

ApplyValidateSkillName ==
  /\ call.fn = "validateSkillName"
  /\ ~call.returned
  /\ call' = [call EXCEPT !.returned = TRUE,
                          !.msg = validateSkillName(call.arg)]
  /\ UNCHANGED <<route, creatorVars, libraryVars>>

ApplyValidateContent ==
  /\ call.fn = "validateContent"
  /\ ~call.returned
  /\ call' = [call EXCEPT !.returned = TRUE,
                          !.msg = validateContent(call.arg)]
  /\ UNCHANGED <<route, creatorVars, libraryVars>>

ApplyValidateTags ==
  /\ call.fn = "validateTags"
  /\ ~call.returned
  /\ call' = [call EXCEPT !.returned = TRUE,
                          !.msg = validateTags(call.arg)]
  /\ UNCHANGED <<route, creatorVars, libraryVars>>

\* validateSkillName(formatSkillName(value)), as handleSkillNameChange
\* calls them.
ApplyFormatThenValidate ==
  /\ call.fn = "formatThenValidate"
  /\ ~call.returned
  /\ call' = [call EXCEPT
                !.returned = TRUE,
                !.str = formatSkillName(call.arg),
                !.msg = validateSkillName(formatSkillName(call.arg))]
  /\ UNCHANGED <<route, creatorVars, libraryVars>>

NextHelpers ==
  \/ ApplyFormatSkillName
  \/ ApplyValidateSkillName
  \/ ApplyValidateContent
  \/ ApplyValidateTags
  \/ ApplyFormatThenValidate

SpecHelpers == InitHelpers /\ [][NextHelpers]_vars

\* ------------------------------------------------------------ properties
\* C1: in every reachable state, if the Generate action is enabled then
\* validateSkillName of the current name passes, validateTags of the current
\* tag text passes, an analysis result is present and no generation call is
\* in flight.
GenerateEnabledOnlyWhenValid ==
  (route = "creator" /\ GenerateEnabled) =>
    /\ validateSkillName(skillName) = NoMsg
    /\ validateTags(tags) = NoMsg
    /\ analysisResult # <<>>
    /\ ~isGenerating
    /\ generateReqs = <<>>

\* C2: a list response that resolves for a query which is no longer the
\* current search term and type filter changes neither the stored results nor
\* the loading flag of the newer query.
StaleListResponseIgnored ==
  [][\A i \in 1..Len(fetchReqs) :
       (/\ route = "library"
        /\ fetchReqs[i].params # SkillsParams(search, filterType)
        /\ loadSkillsResolved(i))
       => (skills' = skills /\ loading' = loading)]_vars

\* C3: at most one analyze call, one generate call and one publish call is
\* in flight at any time, because the control of an action delivers no event
\* while a call of that action is in flight.
AtMostOneCallPerAction ==
  /\ Len(analyzeReqs) <= 1
  /\ Len(generateReqs) <= 1
  /\ Len(publishReqs) <= 1
  /\ isAnalyzing <=> analyzeReqs # <<>>
  /\ isGenerating <=> generateReqs # <<>>

\* An analysis and a generation are in flight together, one call each.
AnalysisAndGenerationInFlight ==
  /\ route = "creator"
  /\ isAnalyzing /\ Len(analyzeReqs) = 1
  /\ isGenerating /\ Len(generateReqs) = 1
  /\ ~ AnalyzeDisabledIgnoringBusy

\* C4: a generate request is issued only with an analysis present, carries
\* that analysis' id and a skill name that passes validateSkillName, and only
\* when validateTags of the tag text passes; a call of handleGenerateSkill
\* with the analysis absent or the name or the tags invalid issues no request,
\* leaves the step as it is and records the error of the first failing field
\* (name before tags) under its key.
GenerateRequestGuarded ==
  [][/\ Len(generateReqs') > Len(generateReqs) =>
          /\ analysisResult # <<>>
          /\ generateReqs'[Len(generateReqs')].analysisId
                = analysisResult[1].analysisId
          /\ validateSkillName(generateReqs'[Len(generateReqs')].skillName) = NoMsg
          /\ validateSkillName(skillName) = NoMsg
          /\ validateTags(tags) = NoMsg
     /\ (/\ ForceGenerate
         /\ \/ analysisResult = <<>>
            \/ validateSkillName(skillName) # NoMsg
            \/ validateTags(tags) # NoMsg) =>
          /\ generateReqs' = generateReqs
          /\ isGenerating' = isGenerating
          /\ currentStep' = currentStep
          /\ analysisResult = <<>> => validationErrors' = validationErrors
          /\ (analysisResult # <<>> /\ validateSkillName(skillName) # NoMsg) =>
               validationErrors' =
                 [validationErrors EXCEPT !.skillName = validateSkillName(skillName)]
          /\ (analysisResult # <<>> /\ validateSkillName(skillName) = NoMsg) =>
               validationErrors' =
                 [validationErrors EXCEPT !.tags = validateTags(tags)]
    ]_vars

\* handleGenerateSkill has rejected a name although the name's recorded error
\* had been cleared: nothing was sent and the step is still 'preview'.
GenerateRejectedName ==
  /\ route = "creator"
  /\ analysisResult # <<>>
  /\ validateSkillName(skillName) # NoMsg
  /\ error = PlainBanner(validateSkillName(skillName))
  /\ validationErrors.skillName = validateSkillName(skillName)
  /\ generateReqs = <<>>
  /\ currentStep = "preview"

\* C5: handleAnalyze called with content whose trimmed length is below
\* MinContentLen issues no request, sets no busy flag, leaves the step and the
\* stored analysis as they are and records the content error.
ShortContentRejectedLocally ==
  [][(ForceAnalyze /\ Len(trim(content)) < MinContentLen) =>
       /\ analyzeReqs' = analyzeReqs
       /\ generateReqs' = generateReqs
       /\ isAnalyzing' = isAnalyzing
       /\ isGenerating' = isGenerating
       /\ analysisResult' = analysisResult
       /\ currentStep' = currentStep
       /\ validationErrors'.content = validateContent(content)
       /\ validationErrors'.content # NoMsg
    ]_vars

\* handleAnalyze has rejected content of MinContentLen - 1 characters.
AnalyzeRejectedShortContent ==
  /\ route = "creator"
  /\ Len(trim(content)) = MinContentLen - 1
  /\ error = PlainBanner(validateContent(content))
  /\ validationErrors.content.len = MinContentLen - 1
  /\ analyzeReqs = <<>>
  /\ ~isAnalyzing
  /\ currentStep = "input"

\* C6: the state that results from a successful generation has a success
\* message, the form at its input defaults (content, content type, analysis,
\* name, description, tags, field errors), no error message and the
\* generation busy flag cleared.
GenerationSuccessResetsForm ==
  [][GenerateSucceeds =>
       /\ success' # <<>>
       /\ content' = <<>>
       /\ contentType' = DefaultContentType
       /\ analysisResult' = <<>>
       /\ skillName' = <<>>
       /\ description' = <<>>
       /\ tags' = <<>>
       /\ validationErrors' = NoValidationErrors
       /\ error' = NoBanner
       /\ ~isGenerating'
    ]_vars

\* C7: the state that results from a failed generation has an error message
\* and the form as it was (content, content type, analysis, name, description,
\* tags), and the step reported is the one of an analysed submission.
GenerationFailureKeepsForm ==
  [][GenerateFails =>
       /\ error' # NoBanner
       /\ UNCHANGED <<content, contentType, analysisResult, skillName,
                      description, tags>>
       /\ currentStep' = "preview"
    ]_vars

\* C8: in the state that results from the resolution of a publish call, on
\* success and on failure, the token held by the modal is empty.
TokenClearedWhenPublishResolves ==
  [][(PublishSucceeds \/ PublishFails) => githubToken' = <<>>]_vars

\* C9: handleSubmit called with a token that is empty after trimming issues no
\* publish request, leaves isPublishing as it is and leaves the modal open on
\* its skill.
EmptyTokenRejectedLocally ==
  [][(ForceSubmit /\ trim(githubToken) = <<>>) =>
       /\ publishReqs' = publishReqs
       /\ isPublishing' = isPublishing
       /\ publishModalOpen' /\ selectedSkill' = selectedSkill
       /\ UNCHANGED <<fetchReqs, notification, githubToken>>
    ]_vars

\* The modal is open on a skill with a token of white space only, nothing is
\* being published: its form can be submitted only past the disabled button.
BlankTokenInOpenModal ==
  /\ route = "library"
  /\ ModalShown
  /\ githubToken # <<>> /\ trim(githubToken) = <<>>
  /\ PublishDisabled
  /\ ~isPublishing /\ publishReqs = <<>>

\* C10: when every call is eventually answered, each busy flag that is set
\* is eventually cleared: isAnalyzing, isGenerating, isPublishing and, while
\* the library is mounted, loading.
BusyFlagsEventuallyCleared ==
  /\ isAnalyzing ~> ~isAnalyzing
  /\ isGenerating ~> ~isGenerating
  /\ isPublishing ~> ~isPublishing
  /\ (route = "library" /\ loading) ~> ~(route = "library" /\ loading)

\* A generation has failed and its busy flag is cleared with the form kept.
GenerationFailedAndRetryable ==
  /\ route = "creator"
  /\ error.msg.text \in {"Skill generation failed", "quota exceeded"}
  /\ analysisResult # <<>>
  /\ ~isGenerating /\ generateReqs = <<>>
  /\ GenerateEnabled

\* C11: formatSkillName has a string as its value for every string, and
\* what it returns is left as it is by a second application, has only the characters a-z, 0-9
\* and hyphen (it may be empty), does not start with a hyphen, does not end
\* with one, and has no two hyphens in a row.
FormatSkillNameCanonical ==
  call.fn = "formatSkillName" =>
    IF call.returned
      THEN /\ formatSkillName(call.str) = call.str
           /\ \A i \in 1..Len(call.str) :
                call.str[i] \in Range(LowerLetters) \cup DigitChars \cup {"-"}
           /\ call.str # <<>> =>
                call.str[1] # "-" /\ call.str[Len(call.str)] # "-"
           /\ \A i \in 1..(Len(call.str) - 1) :
                ~ (call.str[i] = "-" /\ call.str[i + 1] = "-")
      ELSE formatSkillName(call.arg)
             \in Seq(Range(LowerLetters) \cup DigitChars \cup {"-"})

FormattedMySkill ==
  /\ call.fn = "formatSkillName"
  /\ call.returned
  /\ call.arg = <<"M","y"," ","S","k","i","l","l","!","!">>
  /\ call.str = <<"m","y","-","s","k","i","l","l">>

\* C12: in every state the skill name the page holds is in the form
\* formatSkillName gives: formatting it again changes nothing.
StoredSkillNameCanonical == skillName = formatSkillName(skillName)

SkillNameStoredFormatted ==
  /\ route = "creator"
  /\ analysisResult # <<>>
  /\ skillName = <<"m","y","-","s","k","i","l","l">>

\* C13: validateSkillName reports, in this order, a required name when the
\* trimmed argument is empty, a name too short when the trimmed argument has
\* fewer than 3 characters, a bad format when the trimmed argument has a
\* character outside a-z, 0-9 and hyphen, and nothing otherwise.  On what
\* formatSkillName returns it never reports a bad format, and reports
\* nothing exactly when the formatted name has at least 3 characters.
ValidateSkillNameCases ==
  LET trimmed == trim(call.arg)
      text == call.msg.text
  IN  /\ (call.fn = "validateSkillName" /\ call.returned) =>
            /\ call.msg.len = 0 /\ call.msg.items = <<>>
            /\ text = "Skill name is required" <=> Len(trimmed) = 0
            /\ text = "Skill name must be at least 3 characters"
                 <=> Len(trimmed) \in 1..2
            /\ text = "Skill name must be lowercase with hyphens only"
                 <=> /\ Len(trimmed) >= 3
                     /\ \E i \in 1..Len(trimmed) :
                          trimmed[i] \notin
                            Range(LowerLetters) \cup DigitChars \cup {"-"}
            /\ call.msg = NoMsg
                 <=> /\ Len(trimmed) >= 3
                     /\ \A i \in 1..Len(trimmed) :
                          trimmed[i] \in
                            Range(LowerLetters) \cup DigitChars \cup {"-"}
      /\ (call.fn = "formatThenValidate" /\ call.returned) =>
            /\ text # "Skill name must be lowercase with hyphens only"
            /\ call.msg = NoMsg <=> Len(call.str) >= 3

MySkillFormattedPasses ==
  /\ call.fn = "formatThenValidate"
  /\ call.returned
  /\ call.arg = <<"M","y"," ","S","k","i","l","l","!","!">>
  /\ call.str = <<"m","y","-","s","k","i","l","l">>
  /\ call.msg = NoMsg

\* C14: validateContent returns for every string: it reports required
\* content when the trimmed argument is empty, content too short together
\* with the trimmed length when that length is 1 to 99, and nothing when it
\* is 100 or more.
ValidateContentCases ==
  LET n == Len(trim(call.arg))
      text == call.msg.text
  IN  call.fn = "validateContent" =>
        IF call.returned
          THEN /\ call.msg.items = <<>>
               /\ text = "Content is required" <=> n = 0
               /\ text = "Content must be at least 100 characters (currently N)"
                    <=> n \in 1..99
               /\ call.msg.len = IF n \in 1..99 THEN n ELSE 0
               /\ call.msg = NoMsg <=> n >= 100
          ELSE validateContent(call.arg).len \in Nat

ShortContentReportsFive ==
  /\ call.fn = "validateContent"
  /\ call.returned
  /\ call.arg = <<"s","h","o","r","t">>
  /\ call.msg.text = "Content must be at least 100 characters (currently N)"
  /\ call.msg.len = 5

\* C15: validateTags accepts an empty or all-white-space argument.  Any
\* other argument is split at the commas, each entry is trimmed and the
\* empty entries are dropped; it reports invalid tags, listing in their
\* order exactly the entries with a character that is not a letter of
\* either case, a digit or a hyphen, and reports nothing when there is none.
ValidateTagsCases ==
  LET TagChars ==
        Range(LowerLetters) \cup Range(UpperLetters) \cup DigitChars \cup {"-"}
      Kept(t) == t # <<>>
      Bad(t) == \E i \in 1..Len(t) : t[i] \notin TagChars
      parts == split(call.arg, ",")
      entries == SelectSeq([i \in 1..Len(parts) |-> trim(parts[i])], Kept)
      bad == SelectSeq(entries, Bad)
  IN  (call.fn = "validateTags" /\ call.returned) =>
        /\ trim(call.arg) = <<>> => call.msg = NoMsg
        /\ bad = <<>> => call.msg = NoMsg
        /\ bad # <<>> =>
             /\ call.msg.text = "Invalid tags"
             /\ call.msg.items = bad
             /\ call.msg.len = 0

BadTagNamed ==
  /\ call.fn = "validateTags"
  /\ call.returned
  /\ call.arg = <<"d","o","c","s",","," ","a","u","t","o","m","a","t","i","o",
                  "n",","," ","B","a","d"," ","T","a","g">>
  /\ call.msg.text = "Invalid tags"
  /\ call.msg.items = << <<"B","a","d"," ","T","a","g">> >>

\* C16: in every state in which the Analyze button delivers a click,
\* validateContent of the content held reports nothing, no error is recorded
\* for the content field, and no analysis call is in flight.
AnalyzeEnabledOnlyWhenReady ==
  (route = "creator" /\ ~AnalyzeDisabled) =>
    /\ validateContent(content) = NoMsg
    /\ validationErrors.content = NoMsg
    /\ analyzeReqs = <<>>

AnalyzeEnabledAfterAnalysis ==
  /\ route = "creator"
  /\ ~AnalyzeDisabled
  /\ analysisResult # <<>>
  /\ Len(trim(content)) = MinContentLen

\* C17: the step in which a delete call succeeds issues a list fetch (one
\* more call in flight, not answered yet, issued after the record is gone)
\* and shows the list as loading; the step in which a delete call fails
\* issues no fetch and leaves the list held as it is.
DeleteSuccessRefetches ==
  [][ /\ (\E i \in 1..Len(deleteReqs) : DeleteSucceeded(i)) =>
            /\ Len(fetchReqs') = Len(fetchReqs) + 1
            /\ SubSeq(fetchReqs', 1, Len(fetchReqs)) = fetchReqs
            /\ fetchReqs'[Len(fetchReqs')].answer = "none"
            /\ loading'
            /\ \E id \in SkillIds : db[id] # "absent" /\ db'[id] = "absent"
      /\ (\E i \in 1..Len(deleteReqs) : DeleteFailed(i)) =>
            UNCHANGED <<fetchReqs, skills, loading, db>>
    ]_vars

RefetchAfterDelete ==
  /\ route = "library"
  /\ deleteReqs = <<>>
  /\ fetchReqs # <<>>
  /\ fetchReqs[Len(fetchReqs)].answer = "none"
  /\ loading
  /\ \E i \in 1..Len(skills) : db[skills[i].id] = "absent"

\* C18: the mount of the library page issues a list fetch with neither
\* parameter, and every step that changes the search term or the type filter
\* issues a list fetch whose params are the new term and the new filter, the
\* search left out when the term is empty and the type left out when the
\* filter is "all".
QueryChangeFetches ==
  /\ Len(fetchReqs) = 1
  /\ fetchReqs[1].params = [search |-> <<>>, type |-> <<>>]
  /\ fetchReqs[1].answer = "none"
  /\ [][ (search' # search \/ filterType' # filterType) =>
           /\ Len(fetchReqs') = Len(fetchReqs) + 1
           /\ SubSeq(fetchReqs', 1, Len(fetchReqs)) = fetchReqs
           /\ fetchReqs'[Len(fetchReqs')].answer = "none"
           /\ fetchReqs'[Len(fetchReqs')].params.search =
                IF search' = "" THEN <<>> ELSE <<search'>>
           /\ fetchReqs'[Len(fetchReqs')].params.type =
                IF filterType' = "all" THEN <<>> ELSE <<filterType'>>
       ]_vars

FetchForBetaProcess ==
  /\ route = "library"
  /\ search = "beta"
  /\ filterType = "process"
  /\ fetchReqs # <<>>
  /\ fetchReqs[Len(fetchReqs)].answer = "none"
  /\ fetchReqs[Len(fetchReqs)].params =
       [search |-> <<"beta">>, type |-> <<"process">>]

\* C19: in every state of the library page with a list fetch in flight,
\* loading is true.
LoadingWhileFetching ==
  (route = "library" /\ fetchReqs # <<>>) => loading

\* C20: a skill that the list held shows as published on GitHub stays so in
\* every later state of the list that holds it: no step replaces a record
\* with metadata.github by a record of the same skill without it.
GithubNeverCleared ==
  [][ \A i \in 1..Len(skills) : \A j \in 1..Len(skills') :
        (skills'[j].id = skills[i].id /\ skills[i].github) => skills'[j].github
    ]_vars

\* C21: the step in which a publish call succeeds closes the modal, shows
\* the success notification and issues a list fetch; and the publish request
\* a step sends carries the id of the skill the modal is open for, the
\* token of the field without the white space around it, and the privacy
\* flag of the checkbox.
PublishSuccessEffects ==
  [][ /\ (\E i \in 1..Len(publishReqs) : PublishSucceeded(i)) =>
            /\ ~publishModalOpen'
            /\ notification' # <<>>
            /\ notification'[1].type = "success"
            /\ Len(fetchReqs') = Len(fetchReqs) + 1
            /\ SubSeq(fetchReqs', 1, Len(fetchReqs)) = fetchReqs
            /\ fetchReqs'[Len(fetchReqs')].answer = "none"
      /\ Len(publishReqs') > Len(publishReqs) =>
            LET sent == publishReqs'[Len(publishReqs')] IN
            /\ ModalShown
            /\ sent.id = selectedSkill[1].id
            /\ sent.githubToken # <<>>
            /\ Head(sent.githubToken) \notin Whitespace
            /\ sent.githubToken[Len(sent.githubToken)] \notin Whitespace
            /\ \E a \in 0..Len(githubToken), b \in 0..Len(githubToken) :
                 /\ a + b < Len(githubToken)
                 /\ sent.githubToken =
                      SubSeq(githubToken, a + 1, Len(githubToken) - b)
                 /\ \A k \in 1..a : githubToken[k] \in Whitespace
                 /\ \A k \in 1..b :
                      githubToken[Len(githubToken) + 1 - k] \in Whitespace
            /\ sent.isPrivate = isPrivate
    ]_vars

PublishedAndClosed ==
  /\ route = "library"
  /\ selectedSkill # <<>>
  /\ ~publishModalOpen
  /\ notification = Notice("success", "Successfully published to GitHub!")
  /\ db[selectedSkill[1].id] = "published"
  /\ fetchReqs # <<>>
  /\ fetchReqs[Len(fetchReqs)].awaitedByPublish
  /\ ~isPrivate

\* C22: the step in which a publish call fails leaves the modal open for
\* the skill it was open for, empties the token field, issues no list fetch,
\* clears the publishing flag, and shows an error notification whose message
\* is the one of the response when it has one and "Failed to publish skill
\* to GitHub" otherwise.
PublishFailureEffects ==
  [][ \A i \in 1..Len(publishReqs) : \A f \in Failures :
        PublishFailed(i, f) =>
          /\ publishModalOpen'
          /\ selectedSkill' # <<>>
          /\ selectedSkill' = selectedSkill
          /\ githubToken' = <<>>
          /\ fetchReqs' = fetchReqs
          /\ ~isPublishing'
          /\ notification' # <<>>
          /\ notification'[1].type = "error"
          /\ \/ /\ f.hasResponse /\ f.dataMessage # <<>>
                /\ notification'[1].message = f.dataMessage[1]
             \/ /\ ~ (f.hasResponse /\ f.dataMessage # <<>>)
                /\ notification'[1].message = "Failed to publish skill to GitHub"
    ]_vars

PublishRejectedWithMessage ==
  /\ route = "library"
  /\ ModalShown
  /\ ~isPublishing
  /\ githubToken = <<>>
  /\ notification # <<>>
  /\ notification[1].type = "error"
  /\ notification[1].message # "Failed to publish skill to GitHub"

\* C23: every step that closes the publish modal (the target skill is
\* dropped while the library stays mounted) empties the token field and sets
\* publishModalOpen to false, whatever the token and the privacy flag were,
\* and is taken only while the publishing flag is false and no publish call
\* is in flight.
CloseOnlyWhenIdle ==
  [][ (route = "library" /\ route' = "library"
         /\ selectedSkill # <<>> /\ selectedSkill' = <<>>) =>
        /\ ~isPublishing
        /\ publishReqs = <<>>
        /\ githubToken' = <<>>
        /\ ~publishModalOpen'
    ]_vars

ClosedAfterFailedPublish ==
  /\ route = "library"
  /\ selectedSkill = <<>>
  /\ ~publishModalOpen
  /\ githubToken = <<>>
  /\ notification # <<>>
  /\ notification[1].type = "error"

\* C24: the step that handles a failed analysis or generation call sets the
\* error banner and shows the step that was shown when the call was issued.
\* (A generation is issued with an analysis present and no generation in
\* flight, and success is not written while it is in flight: the step shown
\* at its issue was "complete" if success is set and "preview" if not.)
FailureKeepsStage ==
  [][ /\ \A i \in 1..Len(analyzeReqs) : \A f \in Failures :
           AnalyzeFailed(i, f) =>
             /\ error' # NoBanner
             /\ currentStep' = analyzeReqs[i].step
      /\ \A i \in 1..Len(generateReqs) : \A f \in Failures :
           GenerateFailed(i, f) =>
             /\ error' # NoBanner
             /\ currentStep' = IF success # <<>> THEN "complete" ELSE "preview"
    ]_vars

\* C25: the step in which an analysis call succeeds stores the analysis
\* returned in place of any other and leaves no error banner; and in every
\* state that a step leads to with an analysis present and no generation
\* call in flight, the step shown is "preview".
AnalysisSuccessShowsPreview ==
  [][ /\ \A i \in 1..Len(analyzeReqs) : \A id \in AnalysisIds :
           AnalyzeSucceeded(i, id) =>
             /\ Len(analysisResult') = 1
             /\ analysisResult'[1].analysisId = id
             /\ error' = NoBanner
      /\ (analysisResult' # <<>> /\ ~isGenerating' /\ generateReqs' = <<>>) =>
           currentStep' = "preview"
    ]_vars

\* C26: an analysis call that succeeds while the form is as a successful
\* generation has reset it (success shown, content empty: the reset came
\* after the call was issued, since a call is issued with valid content)
\* installs no analysis, clears no message and leaves the form at its
\* defaults.
LateAnalysisLeavesResetForm ==
  [][ \A i \in 1..Len(analyzeReqs) : \A id \in AnalysisIds :
        (AnalyzeSucceeded(i, id) /\ success # <<>> /\ content = <<>>) =>
          /\ analysisResult' = <<>>
          /\ error' = error
          /\ success' = success
          /\ content' = <<>>
          /\ contentType' = DefaultContentType
          /\ skillName' = <<>>
          /\ description' = <<>>
          /\ tags' = <<>>
    ]_vars

\* C27: a step that issues a list fetch leaves the list held as it is and
\* leaves every record that was displayed on display; a fetch that failed
\* leaves the list held as it is when it is handled; and the list changes
\* only in a step that handles the answer of a fetch.
ResultsShownWhileFetching ==
  [][ /\ Len(fetchReqs') > Len(fetchReqs) =>
           /\ skills' = skills
           /\ \A i \in 1..Len(skills) : Listed(i) => Listed(i)'
      /\ \A i \in 1..Len(fetchReqs) :
           (loadSkillsResolved(i) /\ fetchReqs[i].answer = "failed") =>
             skills' = skills
      /\ skills' # skills =>
           \E i \in 1..Len(fetchReqs) :
             /\ fetchReqs[i].answer = "ok"
             /\ skills' = fetchReqs[i].items
             /\ fetchReqs' = RemoveAt(fetchReqs, i)
    ]_vars

\* C28: the step that handles a failed analysis call leaves no analysis
\* stored and the step shown at "input", and sets an error banner with a
\* message, the URL of the backend the call was sent to, the HTTP status
\* when a response was received and "Connection error" when none was, and
\* the four remediation steps.
AnalysisFailureDiagnostic ==
  [][ \A i \in 1..Len(analyzeReqs) : \A f \in Failures :
        AnalyzeFailed(i, f) =>
          /\ analysisResult' = <<>>
          /\ currentStep' = "input"
          /\ error'.msg # NoMsg
          /\ error'.url = "http://localhost:3001/api"
          /\ f.hasResponse => error'.details = "HTTP" /\ error'.status = f.status
          /\ ~f.hasResponse => error'.details = "Connection error"
          /\ Len(error'.steps) = 4
    ]_vars

AnalysisFailedWithStatus ==
  /\ route = "creator"
  /\ ~isAnalyzing
  /\ analysisResult = <<>>
  /\ error.details = "HTTP"
  /\ error.status = 500
  /\ error.url = "http://localhost:3001/api"

\* C29: the tags a generate request carries are the entries of the tag text
\* split at the commas and trimmed, without the empty ones, in their order;
\* no request carries an empty tag, and a tag text that is empty or all white
\* space sends no tags field.
TransmittedTagsAreValidated ==
  [][ Len(generateReqs') > Len(generateReqs) =>
        LET sent == generateReqs'[Len(generateReqs')]
            Kept(t) == t # <<>>
            parts == split(tags, ",")
            entries ==
              SelectSeq([i \in 1..Len(parts) |-> trim(parts[i])], Kept)
        IN  /\ trim(tags) = <<>> => sent.tags = <<>>
            /\ sent.tags # <<>> =>
                 /\ sent.tags[1] = entries
                 /\ \A i \in 1..Len(sent.tags[1]) : sent.tags[1][i] # <<>>
            /\ entries # <<>> => sent.tags = <<entries>>
    ]_vars

\* C30: every generate request a step sends carries the id of the analysis
\* stored and, as its skillType, the content type that was sent in the
\* analyze call that returned this analysis.
SkillTypeIsAnalysedType ==
  [][ Len(generateReqs') > Len(generateReqs) =>
        LET sent == generateReqs'[Len(generateReqs')] IN
        /\ analysisResult # <<>>
        /\ sent.analysisId = analysisResult[1].analysisId
        /\ sent.skillType = analysisResult[1].contentType
    ]_vars

\* C31: the list fetch issued by the step in which a delete or a publish
\* call succeeds carries the search term and the type filter the page holds
\* in that step (the search left out when empty, the type when "all").
RefetchUsesCurrentQuery ==
  [][ (\/ \E i \in 1..Len(deleteReqs) : DeleteSucceeded(i)
       \/ \E i \in 1..Len(publishReqs) : PublishSucceeded(i)) =>
        /\ Len(fetchReqs') = Len(fetchReqs) + 1
        /\ fetchReqs'[Len(fetchReqs')].params.search =
             IF search' = "" THEN <<>> ELSE <<search'>>
        /\ fetchReqs'[Len(fetchReqs')].params.type =
             IF filterType' = "all" THEN <<>> ELSE <<filterType'>>
    ]_vars

====
